---- MODULE Spec2Model ----
(***************************************************************************)
(* Internship lifecycle, remark workflow and certificate download of the   *)
(* ajft-be backend (NestJS + Prisma).                                      *)
(*                                                                         *)
(* Every service / controller handler is an operator from the persisted    *)
(* tables and the request to its outcome: the HTTP response, the tables    *)
(* it leaves, the notification attempts and the rasterizer calls it made.  *)
(* The action of a handler applies that outcome in one step and puts the   *)
(* response in flight; Respond hands the response over, after which the    *)
(* next request is served.                                                 *)
(***************************************************************************)
EXTENDS Integers, Sequences, FiniteSets, TLC

(* ------------------------------ bounds --------------------------------- *)
\* users that createUser may add to the seeded administrator
MaxUsers == 1
\* internships that may ever be created
MaxInternships == 2
\* remarks that may ever be created
MaxRemarks == 1
\* calendar days that request dates range over
MaxDay == 2
\* steps the wall clock may advance
MaxClock == 3
\* the latest timestamp handed to calculateProgress
MaxInstant == 40
\* the latest day handed to calculateDuration
MaxDurationDays == 61
\* internships assigned before dashboards are read
MaxListed == 6
\* update and delete calls served step by step
MaxCalls == 3

(* --------------------------- value domains ----------------------------- *)
\* a property the request body does not carry
NONE == "undefined"
\* a nullable column holding no value
NULL == "null"

Role == {"ADMIN", "USER"}
InternshipStatus == {"ACTIVE", "COMPLETED", "CANCELLED"}
RequestTypes == {"CHANGE_REQUEST", "GENERAL_REMARK", "EXTENSION_REQUEST"}
RemarkStatus == {"PENDING", "REVIEWED", "RESOLVED"}

\* primary keys; the seeded administrator has key 0
UserIds == 0..MaxUsers
InternshipIds == 1..MaxInternships
RemarkIds == 1..MaxRemarks

Titles == {"T1", "T2"}
Roles == {"R1"}
Descriptions == {"D1"}
Messages == {"M1"}
AdminResponses == {"A1"}
UserNames == {"N1"}
SeedEmail == "admin@ajft.com"
EmailOf == <<"u1@ajft.com", "u2@ajft.com", "u3@ajft.com">>
Emails == {SeedEmail} \cup {EmailOf[i] : i \in 1..MaxUsers}

Opt(S) == S \cup {NONE}

\* ISO-8601 date strings (@IsDateString): one instant can be written
\* date-only or with a time part
DateForms == {"date", "datetime"}
DateStrings == [day : 1..MaxDay, form : DateForms]
NoDate == [day |-> 0, form |-> NONE]
OptDate == DateStrings \cup {NoDate}

\* milliseconds in a day
DayMs == 86400000

\* new Date(isoString).getTime(): the instant the string denotes
DateParse(s) == s.day * DayMs

\* milliseconds between two readings of the wall clock: 30 hours, so that
\* readings fall on day boundaries and inside days
ClockStepMs == 108000000

(* ------------------------------- state --------------------------------- *)
\* users, internships, remarks: the three tables, keyed by primary key
\* nextUserId, nextInternshipId, nextRemarkId: the keys the next rows get
\* response: the response in flight with the request it answers, the
\*           notification attempts and the rasterizer calls of its handler
\* clock: the wall clock, in steps of ClockStepMs since the database was
\*        seeded
\* calls: the updateInternship and deleteInternship calls that are served one
\*        database access at a time, in the order of their arrival: the
\*        request, the position in the handler, the row its findUnique
\*        returned (none before that), the status its write replaced, and
\*        once it has ended its status code and the notifications it
\*        attempted
VARIABLES users, internships, remarks, nextUserId, nextInternshipId,
          nextRemarkId, response, clock, calls

vars == <<users, internships, remarks, nextUserId, nextInternshipId,
          nextRemarkId, response, clock, calls>>

\* new Date().getTime(), also the CURRENT_TIMESTAMP of the database
Now == clock * ClockStepMs

(* ----------------------------- persistence ----------------------------- *)
\* table t without the rows whose key is in gone
Without(t, gone) == [k \in DOMAIN t \ gone |-> t[k]]

\* an internship delete that leaves the remarks alone
CascadeInternships_NoCascade(gone) ==
    [internships |-> Without(internships, gone), remarks |-> remarks]

\* prisma.internship.delete: remarks_internshipId_fkey is ON DELETE CASCADE
CascadeInternships(gone) ==
    [internships |-> Without(internships, gone),
     remarks |-> Without(remarks,
                         {r \in DOMAIN remarks : remarks[r].internshipId \in gone})]

\* prisma.user.delete: internships_userId_fkey and remarks_userId_fkey are
\* ON DELETE CASCADE, and the deleted internships cascade to their remarks
CascadeUsers(gone) ==
    LET goneInternships == {i \in DOMAIN internships : internships[i].userId \in gone}
    IN [users |-> Without(users, gone),
        internships |-> Without(internships, goneInternships),
        remarks |-> Without(remarks,
                            {r \in DOMAIN remarks :
                                \/ remarks[r].userId \in gone
                                \/ remarks[r].internshipId \in goneInternships})]

\* the lookup that gives a stored user the internship of any owner
FindFirstInternship_AnyOwner(id, userId) ==
    {i \in DOMAIN internships : i = id /\ userId \in DOMAIN users}

\* prisma.internship.findFirst({ where: { id, userId } })
FindFirstInternship(id, userId) ==
    {i \in DOMAIN internships : i = id /\ internships[i].userId = userId}

(* ------------------------------ outcomes ------------------------------- *)
Outcome(code, body) ==
    [code |-> code, body |-> body, users |-> users, internships |-> internships,
     remarks |-> remarks, mails |-> <<>>, browser |-> <<>>]

NotFoundException(message) == Outcome(404, [message |-> message])
BadRequestException(message) == Outcome(400, [message |-> message])
ConflictException(message) == Outcome(409, [message |-> message])

\* one call of an EmailService.send... method: mailOptions and whether
\* transporter.sendMail resolved
Mail(kind, to, ok) == [kind |-> kind, to |-> to, attachments |-> <<>>, ok |-> ok]

\* a send whose failure reaches the caller and undoes the mutation
TrySend_Propagating(o, mail) ==
    IF mail.ok
    THEN [o EXCEPT !.mails = Append(@, mail)]
    ELSE [Outcome(500, [message |-> "Internal server error"])
            EXCEPT !.mails = Append(o.mails, mail)]

\* try { await this.emailService.send...(...) } catch (error) { console.error }
TrySend(o, mail) == [o EXCEPT !.mails = Append(@, mail)]

(* --------------------------- request bodies ---------------------------- *)
\* CreateUserDto
CreateUserDtos == [email : Emails, name : Opt(UserNames), role : Opt(Role)]

\* CreateInternshipDto: description and status are @IsOptional
CreateInternshipDtos ==
    [userId : UserIds, title : Titles, role : Roles, startDate : DateStrings,
     endDate : DateStrings, description : Opt(Descriptions),
     status : Opt(InternshipStatus)]

\* UpdateInternshipDto: every property is @IsOptional
UpdateInternshipDtos ==
    [title : Opt(Titles), role : Opt(Roles), startDate : OptDate,
     endDate : OptDate, description : Opt(Descriptions),
     status : Opt(InternshipStatus)]

\* CreateRemarkDto
CreateRemarkDtos ==
    [internshipId : InternshipIds, message : Messages,
     requestType : Opt(RequestTypes)]

\* AdminResponseRemarkDto: @IsEnum(['REVIEWED', 'RESOLVED'])
AdminResponseRemarkDtos ==
    [adminResponse : AdminResponses, status : {"REVIEWED", "RESOLVED"}]

\* the JSON bodies a client may send to PATCH admin/remarks/:remarkId
AdminResponseBodies == [adminResponse : AdminResponses, status : RemarkStatus]

\* the global validation pipe: a body is passed to the handler only when the
\* decorators of its DTO class accept it
ValidationPipe(body, dtos) == body \in dtos

\* req.user, as the JWT guard supplies it
Requesters == [id : UserIds, role : Role]

(* ------------------------------ mappers -------------------------------- *)
\* include: { user: { select: { id, email, name } } }
UserSelect(userId) ==
    [id |-> userId, email |-> users[userId].email, name |-> users[userId].name]

mapToResponseDto(id, internship) ==
    [id |-> id, title |-> internship.title, role |-> internship.role,
     startDate |-> internship.startDate, endDate |-> internship.endDate,
     description |-> internship.description, status |-> internship.status,
     user |-> UserSelect(internship.userId)]

mapRemarkToResponseDto(id, remark) ==
    [id |-> id, internshipId |-> remark.internshipId, userId |-> remark.userId,
     message |-> remark.message, requestType |-> remark.requestType,
     status |-> remark.status, adminResponse |-> remark.adminResponse,
     createdAt |-> remark.createdAt, updatedAt |-> remark.updatedAt,
     user |-> UserSelect(remark.userId),
     internship |-> [id |-> remark.internshipId,
                     title |-> internships[remark.internshipId].title,
                     role |-> internships[remark.internshipId].role]]

(* ---------------------------- UsersService ----------------------------- *)
createUser(dto, sendOk) ==
    IF \E u \in DOMAIN users : users[u].email = dto.email
    THEN ConflictException("User with this email already exists")
    ELSE LET user == [email |-> dto.email,
                      name |-> IF dto.name = NONE THEN NULL ELSE dto.name,
                      role |-> IF dto.role = NONE THEN "USER" ELSE dto.role]
             created == [Outcome(201, [id |-> nextUserId, email |-> user.email,
                                       name |-> user.name, role |-> user.role])
                           EXCEPT !.users = users @@ (nextUserId :> user)]
         IN TrySend(created, Mail("credentials", user.email, sendOk))

deleteUser(id) ==
    IF id \notin DOMAIN users
    THEN NotFoundException("User not found")
    ELSE LET db == CascadeUsers({id})
         IN [Outcome(200, [message |-> "User deleted successfully"])
               EXCEPT !.users = db.users, !.internships = db.internships,
                      !.remarks = db.remarks]

(* --------------------- IEEE-754 double arithmetic ---------------------- *)
\* bits of the significand of a Number
MantissaBits == 53
\* a significand is held in three limbs of LimbBits bits, the lowest first,
\* so that no intermediate result exceeds 31 bits
LimbBits == 18
Limb == 2^LimbBits

RECURSIVE BitLength(_)
BitLength(n) == IF n = 0 THEN 0 ELSE 1 + BitLength(n \div 2)

\* significand + 1 when up, with the carries
RoundUp(limbs, up) ==
    LET one == IF up THEN 1 ELSE 0
        c0 == (limbs[1] + one) \div Limb
        c1 == (limbs[2] + c0) \div Limb
    IN <<(limbs[1] + one) % Limb, (limbs[2] + c0) % Limb, limbs[3] + c1>>

\* a / b for integers a > 0 and b > 0, rounded to the nearest double, ties
\* to even: the double is significand * 2^(exponent - (MantissaBits - 1))
\* with 2^(MantissaBits - 1) <= significand <= 2^MantissaBits
DoubleDivide(a, b) ==
    LET width == IF BitLength(a) > BitLength(b) THEN BitLength(a) ELSE BitLength(b)
        n == a * 2^(width - BitLength(a))
        d == b * 2^(width - BitLength(b))
        \* 1 <= num / d < 2
        num == IF n >= d THEN n ELSE 2 * n
        exponent == BitLength(a) - BitLength(b) - (IF n >= d THEN 0 ELSE 1)
        top == num * 2^(MantissaBits - 1 - 2 * LimbBits)
        mid == (top % d) * Limb
        low == (mid % d) * Limb
        rest == low % d
        up == 2 * rest > d \/ (2 * rest = d /\ (low \div d) % 2 = 1)
    IN [significand |-> RoundUp(<<low \div d, mid \div d, top \div d>>, up),
        exponent |-> exponent]

\* x * k for a positive double x and an integer 0 < k < 2^7, rounded to the
\* nearest double, ties to even
DoubleTimes(x, k) ==
    LET p0 == x.significand[1] * k
        p1 == x.significand[2] * k + p0 \div Limb
        p2 == x.significand[3] * k + p1 \div Limb
        \* the exact product p2 * Limb^2 + (p1 % Limb) * Limb + p0 % Limb has
        \* 2 * LimbBits + BitLength(p2) bits, of which the lowest drop are cut
        drop == 2 * LimbBits + BitLength(p2) - MantissaBits
        cut == 2^drop
        l0 == p0 % Limb
        l1 == p1 % Limb
        up == \/ 2 * (l0 % cut) > cut
              \/ 2 * (l0 % cut) = cut /\ (l0 \div cut) % 2 = 1
    IN [significand |->
            RoundUp(<<l0 \div cut + (l1 % cut) * (Limb \div cut),
                      l1 \div cut + (p2 % cut) * (Limb \div cut),
                      p2 \div cut>>, up),
        exponent |-> x.exponent + drop]

\* Math.floor(2 * x) for a positive double x, or 2^(LimbBits - 1) if that
\* is smaller
TwiceFloor(x) ==
    LET shift == MantissaBits - 2 - x.exponent - 2 * LimbBits
    IN IF shift < 0 THEN 2^(LimbBits - 1)
       ELSE IF shift > LimbBits THEN 0
       ELSE x.significand[3] \div 2^shift

\* Math.round(Math.min(x, 100)) for a positive double x: the nearest
\* integer, a half rounds up
RoundedPercent(x) ==
    IF TwiceFloor(x) >= 200 THEN 100 ELSE (TwiceFloor(x) + 1) \div 2

RECURSIVE GCD(_, _)
GCD(a, b) == IF b = 0 THEN a ELSE GCD(b, a % b)

Abs(n) == IF n < 0 THEN 0 - n ELSE n

(* ------------------------- InternshipsService -------------------------- *)
\* a time in milliseconds beyond 31 bits: days * DayMs + ms, 0 <= ms < DayMs
getTime(date) == [days |-> date \div DayMs, ms |-> date % DayMs]

\* a - b for two such times; days is negative when a is before b
TimeMinus(a, b) ==
    IF a.ms >= b.ms
    THEN [days |-> a.days - b.days, ms |-> a.ms - b.ms]
    ELSE [days |-> a.days - b.days - 1, ms |-> a.ms - b.ms + DayMs]

\* Math.abs of a time difference
TimeAbs(diff) ==
    IF diff.days >= 0 THEN diff
    ELSE IF diff.ms = 0 THEN [days |-> 0 - diff.days, ms |-> 0]
    ELSE [days |-> 0 - diff.days - 1, ms |-> DayMs - diff.ms]

\* the duration with the weeks and months rounded to the nearest count
calculateDuration_Rounded(startDate, endDate) ==
    LET diffTime == TimeAbs(TimeMinus(endDate, startDate))
        diffDays == diffTime.days + (IF diffTime.ms > 0 THEN 1 ELSE 0)
    IN IF diffDays < 7 THEN ToString(diffDays) \o " days"
       ELSE IF diffDays < 30 THEN ToString((2 * diffDays + 7) \div 14) \o " weeks"
       ELSE ToString((2 * diffDays + 30) \div 60) \o " months"

\* diffDays = Math.ceil(diffTime / (1000 * 60 * 60 * 24)); the quotients are
\* exact enough in double arithmetic for ceil and floor to be those of the
\* exact ratios
calculateDuration(startDate, endDate) ==
    LET diffTime == TimeAbs(TimeMinus(endDate, startDate))
        diffDays == diffTime.days + (IF diffTime.ms > 0 THEN 1 ELSE 0)
    IN IF diffDays < 7 THEN ToString(diffDays) \o " days"
       ELSE IF diffDays < 30 THEN ToString(diffDays \div 7) \o " weeks"
       ELSE ToString(diffDays \div 30) \o " months"

\* the result of 0 / 0
NaN == "NaN"

\* the progress cut to an integer by Math.floor in place of Math.round
calculateProgress_Truncated(startDate, endDate, currentDate) ==
    LET totalDuration == endDate - startDate
        elapsed == currentDate - startDate
        g == GCD(Abs(elapsed), Abs(totalDuration))
    IN IF totalDuration = 0
       THEN IF elapsed = 0 THEN NaN ELSE IF elapsed > 0 THEN 100 ELSE 0
       ELSE IF elapsed = 0 \/ (elapsed < 0) # (totalDuration < 0) THEN 0
       ELSE LET twice == TwiceFloor(
                             DoubleTimes(DoubleDivide(Abs(elapsed) \div g,
                                                      Abs(totalDuration) \div g),
                                         100))
            IN IF twice >= 200 THEN 100 ELSE twice \div 2

\* Math.round(Math.min(Math.max((elapsed / totalDuration) * 100, 0), 100)).
\* The quotient of two integers is the double nearest to their ratio, so it
\* is computed from the ratio in lowest terms; a quotient that is zero or
\* negative gives 0, a division by zero gives Infinity, -Infinity or NaN.
calculateProgress(startDate, endDate, currentDate) ==
    LET totalDuration == endDate - startDate
        elapsed == currentDate - startDate
        g == GCD(Abs(elapsed), Abs(totalDuration))
    IN IF totalDuration = 0
       THEN IF elapsed = 0 THEN NaN ELSE IF elapsed > 0 THEN 100 ELSE 0
       ELSE IF elapsed = 0 \/ (elapsed < 0) # (totalDuration < 0) THEN 0
       ELSE RoundedPercent(
                DoubleTimes(DoubleDivide(Abs(elapsed) \div g,
                                         Abs(totalDuration) \div g), 100))

\* the range check with > in place of >=
InvalidRange_Strict(start, end) == start > end

\* if (start >= end) throw new BadRequestException(...)
InvalidRange(start, end) == start >= end

\* createInternship with the range check ahead of the user lookup
createInternship_RangeFirst(dto, sendOk) ==
    IF InvalidRange(DateParse(dto.startDate), DateParse(dto.endDate))
    THEN BadRequestException("End date must be after start date")
    ELSE NotFoundException("User not found")

createInternship(dto, sendOk) ==
    IF dto.userId \notin DOMAIN users
    THEN NotFoundException("User not found")
    ELSE LET start == DateParse(dto.startDate)
             end == DateParse(dto.endDate)
         IN IF InvalidRange(start, end)
            THEN BadRequestException("End date must be after start date")
            ELSE LET internship ==
                         [userId |-> dto.userId, title |-> dto.title,
                          role |-> dto.role, startDate |-> start, endDate |-> end,
                          description |-> IF dto.description = NONE THEN NULL
                                          ELSE dto.description,
                          status |-> IF dto.status = NONE THEN "ACTIVE"
                                     ELSE dto.status]
                     created ==
                         [Outcome(201, mapToResponseDto(nextInternshipId, internship))
                            EXCEPT !.internships =
                                       internships @@ (nextInternshipId :> internship)]
                 IN TrySend(created,
                            Mail("assignment", users[dto.userId].email, sendOk))

\* Math.ceil(a / b) for b > 0
CeilDiv(a, b) == 0 - ((0 - a) \div b)

\* the elements of a set of creation stamps, the latest first
OrderDesc(S) ==
    [k \in 1..Cardinality(S) |->
        CHOOSE x \in S : Cardinality({y \in S : y > x}) = k - 1]

\* findMany({ where: { userId }, orderBy: { createdAt: 'desc' } }): rows are
\* numbered in the order of their creation
FindManyByUser(userId) ==
    OrderDesc({i \in DOMAIN internships : internships[i].userId = userId})

\* the list entry with an internship overdue as soon as its end date is past
ListEntry_OverdueWhenPast(id, internship, today) ==
    LET mapped == mapToResponseDto(id, internship)
        daysLeft == CeilDiv(internship.endDate - today, DayMs)
    IN IF internship.status = "ACTIVE"
       THEN mapped @@ [daysLeft |-> IF daysLeft > 0 THEN daysLeft ELSE 0,
                       isOverdue |-> internship.endDate < today,
                       progress |-> calculateProgress(internship.startDate,
                                                      internship.endDate, today)]
       ELSE mapped

\* the callback of internships.map in getInternshipsByUserId
ListEntry(id, internship, today) ==
    LET mapped == mapToResponseDto(id, internship)
        daysLeft == CeilDiv(internship.endDate - today, DayMs)
    IN IF internship.status = "ACTIVE"
       THEN mapped @@ [daysLeft |-> IF daysLeft > 0 THEN daysLeft ELSE 0,
                       isOverdue |-> daysLeft < 0,
                       progress |-> calculateProgress(internship.startDate,
                                                      internship.endDate, today)]
       ELSE mapped

getInternshipsByUserId(userId) ==
    LET found == FindManyByUser(userId)
    IN Outcome(200, [k \in DOMAIN found |->
                        ListEntry(found[k], internships[found[k]], Now)])

\* internships.slice(0, 5)
RecentLimit == 5

\* the dashboard with every internship of the user as recent activity
getUserDashboard_AllRecent(userId) ==
    LET list == getInternshipsByUserId(userId).body
        WithStatus(status) == SelectSeq(list, LAMBDA i : i.status = status)
    IN Outcome(200,
               [stats |-> [total |-> Len(list),
                           active |-> Len(WithStatus("ACTIVE")),
                           completed |-> Len(WithStatus("COMPLETED")),
                           cancelled |-> Len(WithStatus("CANCELLED"))],
                activeInternships |-> WithStatus("ACTIVE"),
                completedInternships |-> WithStatus("COMPLETED"),
                recentActivity |-> list])

getUserDashboard(userId) ==
    LET list == getInternshipsByUserId(userId).body
        WithStatus(status) == SelectSeq(list, LAMBDA i : i.status = status)
    IN Outcome(200,
               [stats |-> [total |-> Len(list),
                           active |-> Len(WithStatus("ACTIVE")),
                           completed |-> Len(WithStatus("COMPLETED")),
                           cancelled |-> Len(WithStatus("CANCELLED"))],
                activeInternships |-> WithStatus("ACTIVE"),
                completedInternships |-> WithStatus("COMPLETED"),
                recentActivity |->
                    SubSeq(list, 1, IF Len(list) < RecentLimit
                                    THEN Len(list) ELSE RecentLimit)])

getInternshipById(id) ==
    IF id \notin DOMAIN internships
    THEN NotFoundException("Internship not found")
    ELSE Outcome(200, mapToResponseDto(id, internships[id]))

\* an update that leaves the status of a COMPLETED internship as it is
UpdatedRow_CompletedFinal(internship, dto) ==
    [internship EXCEPT
       !.title = IF dto.title = NONE THEN @ ELSE dto.title,
       !.role = IF dto.role = NONE THEN @ ELSE dto.role,
       !.startDate = IF dto.startDate = NoDate THEN @ ELSE DateParse(dto.startDate),
       !.endDate = IF dto.endDate = NoDate THEN @ ELSE DateParse(dto.endDate),
       !.description = IF dto.description = NONE THEN @ ELSE dto.description,
       !.status = IF dto.status = NONE \/ @ = "COMPLETED" THEN @ ELSE dto.status]

\* an update that writes the column default where the patch omits the status
UpdatedRow_Replace(internship, dto) ==
    [internship EXCEPT
       !.title = IF dto.title = NONE THEN @ ELSE dto.title,
       !.role = IF dto.role = NONE THEN @ ELSE dto.role,
       !.startDate = IF dto.startDate = NoDate THEN @ ELSE DateParse(dto.startDate),
       !.endDate = IF dto.endDate = NoDate THEN @ ELSE DateParse(dto.endDate),
       !.description = IF dto.description = NONE THEN @ ELSE dto.description,
       !.status = IF dto.status = NONE THEN "ACTIVE" ELSE dto.status]

\* the data of prisma.internship.update: the spread dto with both dates
\* converted; a property that is undefined is not written
UpdatedRow(internship, dto) ==
    [internship EXCEPT
       !.title = IF dto.title = NONE THEN @ ELSE dto.title,
       !.role = IF dto.role = NONE THEN @ ELSE dto.role,
       !.startDate = IF dto.startDate = NoDate THEN @ ELSE DateParse(dto.startDate),
       !.endDate = IF dto.endDate = NoDate THEN @ ELSE DateParse(dto.endDate),
       !.description = IF dto.description = NONE THEN @ ELSE dto.description,
       !.status = IF dto.status = NONE THEN @ ELSE dto.status]

\* the completion guard without its test of the stored status
StatusChangedToCompleted_Always(internship, dto) == dto.status = "COMPLETED"

\* updateInternshipDto.status === 'COMPLETED' && internship.status !== 'COMPLETED'
StatusChangedToCompleted(internship, dto) ==
    dto.status = "COMPLETED" /\ internship.status # "COMPLETED"

\* Date.prototype.toDateString: the calendar day of the instant, its time of
\* day dropped
toDateString(date) == [day |-> date \div DayMs]

\* the values of a nullable text column that a || b skips
Falsy == {NULL, ""}

\* the certificate data with the stored name as userName, whatever it is
CertificateData_NameOnly(t, internshipId) ==
    LET internship == t[internshipId]
        user == users[internship.userId]
    IN [userName |-> user.name,
        internshipTitle |-> internship.title, role |-> internship.role,
        startDate |-> toDateString(internship.startDate),
        endDate |-> toDateString(internship.endDate),
        duration |-> calculateDuration(getTime(internship.startDate),
                                       getTime(internship.endDate)),
        issueDate |-> toDateString(Now)]

\* the record getCertificateData builds from a row of table t;
\* userName: internship.user.name || internship.user.email
CertificateData(t, internshipId) ==
    LET internship == t[internshipId]
        user == users[internship.userId]
    IN [userName |-> IF user.name \in Falsy THEN user.email ELSE user.name,
        internshipTitle |-> internship.title, role |-> internship.role,
        startDate |-> toDateString(internship.startDate),
        endDate |-> toDateString(internship.endDate),
        duration |-> calculateDuration(getTime(internship.startDate),
                                       getTime(internship.endDate)),
        issueDate |-> toDateString(Now)]

\* ${date} in the template: the text of a calendar day
DateText(date) == "Day " \o ToString(date.day)

\* the certificate page: the template literal with its interpolations, in
\* the order of the template; the markup between two interpolations is cut
\* down to the elements that enclose them
generateCertificateHTML(data) ==
    "<html><head><title>Certificate - " \o data.userName \o "</title></head>"
      \o "<body><div>" \o data.userName \o "</div>"
      \o "<div>Has successfully completed the <strong>"
      \o data.internshipTitle \o "</strong> program in the capacity of <strong>"
      \o data.role \o "</strong> from <strong>" \o DateText(data.startDate)
      \o "</strong> to <strong>" \o DateText(data.endDate) \o "</strong>.</div>"
      \o "<div>Issued on " \o DateText(data.issueDate) \o "</div></body></html>"

\* mailOptions of the completion mail: from, to, subject and html; the
\* certificateHTML argument is not used
sendInternshipCompletionEmail(email, certificateHTML, ok) ==
    Mail("completion", email, ok)

getCertificateData(internshipId) ==
    IF internshipId \notin DOMAIN internships
    THEN NotFoundException("Internship not found")
    ELSE Outcome(200, CertificateData(internships, internshipId))

updateInternship(id, dto, sendOk) ==
    IF id \notin DOMAIN internships
    THEN NotFoundException("Internship not found")
    ELSE LET internship == internships[id]
         IN IF /\ dto.startDate # NoDate
               /\ dto.endDate # NoDate
               /\ InvalidRange(DateParse(dto.startDate), DateParse(dto.endDate))
            THEN BadRequestException("End date must be after start date")
            ELSE LET updatedInternship == UpdatedRow(internship, dto)
                     updated ==
                         [Outcome(200, mapToResponseDto(id, updatedInternship))
                            EXCEPT !.internships =
                                       [internships EXCEPT ![id] = updatedInternship]]
                 IN IF StatusChangedToCompleted(internship, dto)
                    THEN LET certificateData ==
                                 CertificateData(updated.internships, id)
                             certificateHTML ==
                                 generateCertificateHTML(certificateData)
                         IN TrySend(updated,
                                    sendInternshipCompletionEmail(
                                        users[internship.userId].email,
                                        certificateHTML, sendOk))
                    ELSE updated

\* a delete that reports success for an id that is not stored
deleteInternship_Idempotent(id) ==
    LET db == CascadeInternships({id})
    IN [Outcome(200, [message |-> "Internship deleted successfully"])
          EXCEPT !.internships = db.internships, !.remarks = db.remarks]

deleteInternship(id) ==
    IF id \notin DOMAIN internships
    THEN NotFoundException("Internship not found")
    ELSE LET db == CascadeInternships({id})
         IN [Outcome(200, [message |-> "Internship deleted successfully"])
               EXCEPT !.internships = db.internships, !.remarks = db.remarks]

\* a remark stored with an empty response in place of none
createRemark_EmptyResponse(userId, dto, sendOk) ==
    IF FindFirstInternship(dto.internshipId, userId) = {}
    THEN NotFoundException("Internship not found or access denied")
    ELSE LET remark ==
                 [internshipId |-> dto.internshipId, userId |-> userId,
                  message |-> dto.message,
                  requestType |-> IF dto.requestType = NONE THEN "GENERAL_REMARK"
                                  ELSE dto.requestType,
                  status |-> "PENDING", adminResponse |-> "",
                  createdAt |-> Now, updatedAt |-> Now]
             created == [Outcome(201, mapRemarkToResponseDto(nextRemarkId, remark))
                           EXCEPT !.remarks = remarks @@ (nextRemarkId :> remark)]
         IN TrySend(created, Mail("remark", "ADMIN_EMAIL", sendOk))

createRemark(userId, dto, sendOk) ==
    IF FindFirstInternship(dto.internshipId, userId) = {}
    THEN NotFoundException("Internship not found or access denied")
    ELSE LET remark ==
                 [internshipId |-> dto.internshipId, userId |-> userId,
                  message |-> dto.message,
                  requestType |-> IF dto.requestType = NONE THEN "GENERAL_REMARK"
                                  ELSE dto.requestType,
                  status |-> "PENDING", adminResponse |-> NULL,
                  createdAt |-> Now, updatedAt |-> Now]
             created == [Outcome(201, mapRemarkToResponseDto(nextRemarkId, remark))
                           EXCEPT !.remarks = remarks @@ (nextRemarkId :> remark)]
         IN TrySend(created, Mail("remark", "ADMIN_EMAIL", sendOk))

\* a respond that leaves updatedAt as it was
adminRespondToRemark_StaleTimestamp(remarkId, dto, sendOk) ==
    IF remarkId \notin DOMAIN remarks
    THEN NotFoundException("Remark not found")
    ELSE LET remark == remarks[remarkId]
             updatedRemark == [remark EXCEPT !.adminResponse = dto.adminResponse,
                                             !.status = dto.status]
             updated == [Outcome(200, mapRemarkToResponseDto(remarkId, updatedRemark))
                           EXCEPT !.remarks = [remarks EXCEPT ![remarkId] = updatedRemark]]
         IN TrySend(updated, Mail("response", users[remark.userId].email, sendOk))

adminRespondToRemark(remarkId, dto, sendOk) ==
    IF remarkId \notin DOMAIN remarks
    THEN NotFoundException("Remark not found")
    ELSE LET remark == remarks[remarkId]
             updatedRemark == [remark EXCEPT !.adminResponse = dto.adminResponse,
                                             !.status = dto.status,
                                             !.updatedAt = Now]
             updated == [Outcome(200, mapRemarkToResponseDto(remarkId, updatedRemark))
                           EXCEPT !.remarks = [remarks EXCEPT ![remarkId] = updatedRemark]]
         IN TrySend(updated, Mail("response", users[remark.userId].email, sendOk))

getMyInternshipDetails(userId, internshipId) ==
    IF FindFirstInternship(internshipId, userId) = {}
    THEN NotFoundException("Internship not found or access denied")
    ELSE LET internship == internships[internshipId]
             mapped == mapToResponseDto(internshipId, internship)
             today == Now
             daysLeft == CeilDiv(internship.endDate - today, DayMs)
         IN Outcome(200,
                mapped @@
                [canDownloadCertificate |-> internship.status = "COMPLETED",
                 daysLeft |-> IF internship.status = "ACTIVE"
                              THEN (IF daysLeft > 0 THEN daysLeft ELSE 0)
                              ELSE NULL,
                 progress |-> IF internship.status = "ACTIVE"
                              THEN calculateProgress(internship.startDate,
                                                     internship.endDate, today)
                              ELSE IF internship.status = "COMPLETED"
                              THEN 100 ELSE 0,
                 duration |-> calculateDuration(getTime(internship.startDate),
                                                getTime(internship.endDate)),
                 isOverdue |-> /\ internship.status = "ACTIVE"
                               /\ internship.endDate < today])

\* the eligibility answer without its status check
canUserDownloadCertificate_NoStatus(userId, internshipId) ==
    IF FindFirstInternship(internshipId, userId) = {}
    THEN Outcome(200, [canDownload |-> FALSE,
                       reason |-> "Internship not found or access denied"])
    ELSE Outcome(200, [canDownload |-> TRUE, reason |-> NONE])

canUserDownloadCertificate(userId, internshipId) ==
    IF FindFirstInternship(internshipId, userId) = {}
    THEN Outcome(200, [canDownload |-> FALSE,
                       reason |-> "Internship not found or access denied"])
    ELSE IF internships[internshipId].status # "COMPLETED"
    THEN Outcome(200, [canDownload |-> FALSE,
                       reason |-> "Certificate is only available for completed internships"])
    ELSE Outcome(200, [canDownload |-> TRUE, reason |-> NONE])

(* ------------------------- certificate rasterizer ---------------------- *)
Formats == {"png", "pdf"}

\* the puppeteer calls of generateCertificatePDF / generateCertificatePNG,
\* in program order
RasterSteps(format) ==
    IF format = "pdf"
    THEN <<"launch", "newPage", "setViewport", "setContent", "fontsReady",
           "settle", "pdf">>
    ELSE <<"launch", "newPage", "setContent", "setViewport", "screenshot">>

\* a run fails at none of its calls (0) or at call number failAt
RasterFailures(format) == 0..Len(RasterSteps(format))

\* the rasterizer with the browser closed after the buffer is returned only
generateCertificate_CloseOnSuccess(format, failAt) ==
    LET steps == RasterSteps(format)
        ran == IF failAt = 0 THEN steps ELSE SubSeq(steps, 1, failAt)
    IN [ok |-> failAt = 0,
        browser |-> IF failAt = 0 THEN Append(ran, "close") ELSE ran]

\* the calls made when call failAt rejects; launch is outside the try block,
\* the finally block closes the browser
generateCertificate(format, failAt) ==
    LET steps == RasterSteps(format)
        ran == IF failAt = 0 THEN steps ELSE SubSeq(steps, 1, failAt)
    IN [ok |-> failAt = 0,
        browser |-> IF failAt = 1 THEN ran ELSE Append(ran, "close")]

(* ------------------------ InternshipsController ------------------------ *)
\* the access check without its exemption of administrators
AccessDenied_OwnerOnly(internship, req) == internship.user.id # req.id

\* internship.user.id !== userId && req.user.role !== 'ADMIN'
AccessDenied(internship, req) ==
    internship.user.id # req.id /\ req.role # "ADMIN"

\* downloadCertificateAsPNG / downloadCertificateAsPDF: every exception of
\* the try block ends in the catch block's 500
downloadCertificateAs(format, req, id, failAt) ==
    LET found == getInternshipById(id)
    IN IF found.code # 200
       THEN Outcome(500, [error |-> "Failed to generate certificate"])
       ELSE IF AccessDenied(found.body, req)
       THEN Outcome(403, [error |-> "Access denied. You can only download certificates for your own internships."])
       ELSE IF found.body.status # "COMPLETED"
       THEN Outcome(400, [error |-> "Certificate is only available for completed internships."])
       ELSE LET data == getCertificateData(id)
                raster == generateCertificate(format, failAt)
            IN IF ~ raster.ok
               THEN [Outcome(500, [error |-> "Failed to generate certificate"])
                       EXCEPT !.browser = raster.browser]
               ELSE [Outcome(200, [bytes |-> format, data |-> data.body])
                       EXCEPT !.browser = raster.browser]

\* the route without its body validation
patchRemark_Unvalidated(remarkId, body, sendOk) ==
    adminRespondToRemark(remarkId, body, sendOk)

\* PATCH admin/remarks/:remarkId: the body is validated as an
\* AdminResponseRemarkDto, then handed to the service
patchRemark(remarkId, body, sendOk) ==
    IF ~ ValidationPipe(body, AdminResponseRemarkDtos)
    THEN BadRequestException("Bad Request")
    ELSE adminRespondToRemark(remarkId, body, sendOk)

(* ------------------------------ actions -------------------------------- *)
NoResponse ==
    [op |-> NONE, request |-> <<>>, code |-> 0, body |-> <<>>, mails |-> <<>>,
     browser |-> <<>>]

\* no response is in flight: the next request can be served
Idle == response.op = NONE

\* the handler's outcome becomes the state, a key is used up by each row
\* added, and the response goes in flight
Apply(op, request, o) ==
    /\ users' = o.users
    /\ internships' = o.internships
    /\ remarks' = o.remarks
    /\ nextUserId' = IF DOMAIN o.users \subseteq DOMAIN users
                     THEN nextUserId ELSE nextUserId + 1
    /\ nextInternshipId' = IF DOMAIN o.internships \subseteq DOMAIN internships
                           THEN nextInternshipId ELSE nextInternshipId + 1
    /\ nextRemarkId' = IF DOMAIN o.remarks \subseteq DOMAIN remarks
                       THEN nextRemarkId ELSE nextRemarkId + 1
    /\ response' = [op |-> op, request |-> request, code |-> o.code,
                    body |-> o.body, mails |-> o.mails, browser |-> o.browser]
    /\ clock' = clock
    /\ calls' = calls

\* a row is added only while the bound leaves a key for it
Room(o) ==
    /\ DOMAIN o.users \subseteq UserIds
    /\ DOMAIN o.internships \subseteq InternshipIds
    /\ DOMAIN o.remarks \subseteq RemarkIds

\* the date-only string of day d
IsoDate(d) == [day |-> d, form |-> "date"]

\* the requests issued under Spec: users without a name, internships that
\* differ in their owner, patches that carry both dates, remarks of the
\* default type
CreateUserRequests == [email : Emails, name : {NONE}, role : {NONE}]

AssignRequests ==
    [userId : UserIds, title : {"T1"}, role : {"R1"}, startDate : {IsoDate(1)},
     endDate : {IsoDate(1), IsoDate(2)}, description : {NONE}, status : {NONE}]

RescheduleRequests ==
    [title : {NONE}, role : {NONE}, startDate : {IsoDate(1)},
     endDate : {IsoDate(1), IsoDate(2)}, description : {NONE}, status : {NONE}]

CreateRemarkRequests ==
    [internshipId : InternshipIds, message : Messages, requestType : {NONE}]

\* the requests issued under SpecLifecycle: internships in every status,
\* patches of the status alone or with both dates
CreateInternshipRequests ==
    [userId : UserIds, title : {"T1"}, role : {"R1"}, startDate : {IsoDate(1)},
     endDate : {IsoDate(1), IsoDate(2)}, description : {NONE},
     status : Opt(InternshipStatus)]

UpdateInternshipRequests ==
    {[title |-> NONE, role |-> NONE, startDate |-> d[1], endDate |-> d[2],
      description |-> NONE, status |-> s] :
        d \in {<<NoDate, NoDate>>, <<IsoDate(1), IsoDate(2)>>,
               <<IsoDate(2), IsoDate(1)>>},
        s \in Opt(InternshipStatus)}

\* the requests issued under SpecDates: one owner, every pair of dates,
\* patches of one date or both
DatedCreateRequests ==
    [userId : {0}, title : {"T1"}, role : {"R1"}, startDate : DateStrings,
     endDate : DateStrings, description : {NONE}, status : {NONE}]

DatedUpdateRequests ==
    [title : {NONE}, role : {NONE},
     startDate : {IsoDate(d) : d \in 1..MaxDay} \cup {NoDate},
     endDate : {IsoDate(d) : d \in 1..MaxDay} \cup {NoDate},
     description : {NONE}, status : {NONE, "COMPLETED"}]

CreateUser ==
    /\ Idle
    /\ \E dto \in CreateUserRequests, sendOk \in BOOLEAN :
           LET o == createUser(dto, sendOk)
           IN Room(o) /\ Apply("createUser", [dto |-> dto], o)

DeleteUser ==
    /\ Idle
    /\ \E id \in UserIds : Apply("deleteUser", [id |-> id], deleteUser(id))

CreateInternshipFrom(dtos) ==
    /\ Idle
    /\ \E dto \in dtos, sendOk \in BOOLEAN :
           LET o == createInternship(dto, sendOk)
           IN Room(o) /\ Apply("createInternship", [dto |-> dto], o)

UpdateInternshipFrom(dtos) ==
    /\ Idle
    /\ \E id \in InternshipIds, dto \in dtos, sendOk \in BOOLEAN :
           Apply("updateInternship", [id |-> id, dto |-> dto],
                 updateInternship(id, dto, sendOk))

AssignInternship == CreateInternshipFrom(AssignRequests)

RescheduleInternship == UpdateInternshipFrom(RescheduleRequests)

\* users created without a name, with an empty name and with a name
NamedUserRequests == [email : Emails, name : {NONE, "", "N1"}, role : {NONE}]

RegisterUser ==
    /\ Idle
    /\ \E dto \in NamedUserRequests, sendOk \in BOOLEAN :
           LET o == createUser(dto, sendOk)
           IN Room(o) /\ Apply("createUser", [dto |-> dto], o)

\* GET :id/certificate-data, open to every authenticated requester
GetCertificateData ==
    /\ Idle
    /\ \E req \in Requesters, id \in InternshipIds :
           Apply("getCertificateData", [user |-> req, id |-> id],
                 [getCertificateData(id)
                    EXCEPT !.body = IF getCertificateData(id).code = 200
                                    THEN [success |-> TRUE, data |-> @]
                                    ELSE @])

\* timestamps handed to the date calculator
Instants == 0..MaxInstant

CalculateProgress ==
    /\ Idle
    /\ \E startDate \in Instants, endDate \in Instants, currentDate \in Instants :
           /\ startDate < endDate
           /\ response' = [op |-> "calculateProgress",
                           request |-> [startDate |-> startDate,
                                        endDate |-> endDate,
                                        currentDate |-> currentDate],
                           code |-> 200,
                           body |-> calculateProgress(startDate, endDate,
                                                      currentDate),
                           mails |-> <<>>, browser |-> <<>>]
    /\ UNCHANGED <<users, internships, remarks, nextUserId, nextInternshipId,
                   nextRemarkId, clock, calls>>

\* dates handed to calculateDuration: day boundaries, the millisecond after
\* one and the millisecond before the next
DayOffsets == {0, 1, DayMs - 1}
Dates == [days : 0..MaxDurationDays, ms : DayOffsets]

CalculateDuration ==
    /\ Idle
    /\ \E startDate \in Dates, endDate \in Dates :
           response' = [op |-> "calculateDuration",
                        request |-> [startDate |-> startDate, endDate |-> endDate],
                        code |-> 200,
                        body |-> calculateDuration(startDate, endDate),
                        mails |-> <<>>, browser |-> <<>>]
    /\ UNCHANGED <<users, internships, remarks, nextUserId, nextInternshipId,
                   nextRemarkId, clock, calls>>

\* texts a name, a title or a role may hold: plain ones and ones with markup
Texts == {"N1", "T1", "R&D", "a<b", "<script>alert(1)</script>"}

\* the certificate data handed to the template
TemplateData ==
    [userName : Texts, internshipTitle : Texts, role : Texts,
     startDate : {toDateString(DayMs)},
     endDate : {toDateString(d * DayMs) : d \in 2..(MaxDay + 1)},
     issueDate : {toDateString(Now)}]

GenerateCertificateHTML ==
    /\ Idle
    /\ \E data \in TemplateData :
           response' = [op |-> "generateCertificateHTML",
                        request |-> [data |-> data], code |-> 200,
                        body |-> generateCertificateHTML(data),
                        mails |-> <<>>, browser |-> <<>>]
    /\ UNCHANGED <<users, internships, remarks, nextUserId, nextInternshipId,
                   nextRemarkId, clock, calls>>

\* GET my-internships and GET user/:userId
GetInternshipsByUserId ==
    /\ Idle
    /\ \E userId \in UserIds :
           Apply("getInternshipsByUserId", [userId |-> userId],
                 getInternshipsByUserId(userId))

\* GET my-internships/:id/details
GetMyInternshipDetails ==
    /\ Idle
    /\ \E req \in Requesters, internshipId \in InternshipIds :
           Apply("getMyInternshipDetails", [user |-> req, id |-> internshipId],
                 getMyInternshipDetails(req.id, internshipId))

\* one user besides the seeded administrator is enrolled
EnrolUser ==
    /\ Idle
    /\ LET dto == [email |-> EmailOf[1], name |-> NONE, role |-> NONE]
           o == createUser(dto, TRUE)
       IN DOMAIN o.users \subseteq 0..1 /\ Apply("createUser", [dto |-> dto], o)

\* up to MaxListed internships are assigned: in every status to the enrolled
\* user, active ones to the administrator
AssignListed ==
    /\ Idle
    /\ nextInternshipId <= MaxListed
    /\ \E userId \in DOMAIN users :
       \E status \in IF userId = 0 THEN {"ACTIVE"} ELSE InternshipStatus :
           LET dto == [userId |-> userId, title |-> "T1", role |-> "R1",
                       startDate |-> IsoDate(1), endDate |-> IsoDate(2),
                       description |-> NONE, status |-> status]
           IN Apply("createInternship", [dto |-> dto],
                    createInternship(dto, TRUE))

\* GET dashboard
GetUserDashboard ==
    /\ Idle
    /\ \E userId \in UserIds :
           Apply("getUserDashboard", [userId |-> userId],
                 getUserDashboard(userId))

CreateInternship == CreateInternshipFrom(CreateInternshipRequests)

UpdateInternship == UpdateInternshipFrom(UpdateInternshipRequests)

CreateDatedInternship == CreateInternshipFrom(DatedCreateRequests)

UpdateDatedInternship == UpdateInternshipFrom(DatedUpdateRequests)

GetInternshipById ==
    /\ Idle
    /\ \E id \in InternshipIds :
           Apply("getInternshipById", [id |-> id], getInternshipById(id))

DeleteInternship ==
    /\ Idle
    /\ \E id \in InternshipIds :
           Apply("deleteInternship", [id |-> id], deleteInternship(id))

CreateRemark ==
    /\ Idle
    /\ \E req \in Requesters, dto \in CreateRemarkRequests, sendOk \in BOOLEAN :
           LET o == createRemark(req.id, dto, sendOk)
           IN Room(o) /\ Apply("createRemark", [user |-> req, dto |-> dto], o)

AdminRespondToRemark ==
    /\ Idle
    /\ \E remarkId \in RemarkIds, dto \in AdminResponseRemarkDtos,
          sendOk \in BOOLEAN :
           Apply("adminRespondToRemark", [remarkId |-> remarkId, dto |-> dto],
                 adminRespondToRemark(remarkId, dto, sendOk))

PatchRemark ==
    /\ Idle
    /\ \E remarkId \in RemarkIds, body \in AdminResponseBodies, sendOk \in BOOLEAN :
           Apply("patchRemark", [remarkId |-> remarkId, body |-> body],
                 patchRemark(remarkId, body, sendOk))

CheckCertificateEligibility ==
    /\ Idle
    /\ \E req \in Requesters, internshipId \in InternshipIds :
           Apply("checkCertificateEligibility", [user |-> req, id |-> internshipId],
                 canUserDownloadCertificate(req.id, internshipId))

DownloadCertificateAs ==
    /\ Idle
    /\ \E format \in Formats, req \in Requesters, id \in InternshipIds :
           \E failAt \in RasterFailures(format) :
               Apply("downloadCertificateAs",
                     [format |-> format, user |-> req, id |-> id],
                     downloadCertificateAs(format, req, id, failAt))

\* one internship is assigned, in any status, to the administrator before
\* the first call arrives
AssignFirst ==
    /\ Idle
    /\ internships = <<>>
    /\ calls = <<>>
    /\ \E status \in InternshipStatus :
           LET dto == [userId |-> 0, title |-> "T1", role |-> "R1",
                       startDate |-> IsoDate(1), endDate |-> IsoDate(2),
                       description |-> NONE, status |-> status]
           IN Apply("createInternship", [dto |-> dto],
                    createInternship(dto, TRUE))

\* the patches of the status alone
StatusPatches ==
    [title : {NONE}, role : {NONE}, startDate : {NoDate}, endDate : {NoDate},
     description : {NONE}, status : InternshipStatus]

\* a call that has arrived and not yet run
NewCall(op, id, dto) ==
    [op |-> op, id |-> id, dto |-> dto, pc |-> "find", found |-> <<>>,
     replaced |-> NULL, code |-> 0, mails |-> <<>>]

\* the call returns or throws
Ended(call, code) == [call EXCEPT !.pc = "done", !.code = code]

\* the calls that have not ended
Running == {c \in DOMAIN calls : calls[c].pc # "done"}

\* PATCH :id or DELETE :id arrives for a stored internship
Arrive ==
    /\ Idle
    /\ Len(calls) < MaxCalls
    /\ \E id \in DOMAIN internships :
           \/ \E dto \in StatusPatches :
                  calls' = Append(calls, NewCall("updateInternship", id, dto))
           \/ calls' = Append(calls, NewCall("deleteInternship", id, NONE))
    /\ UNCHANGED <<users, internships, remarks, nextUserId, nextInternshipId,
                   nextRemarkId, response, clock>>

\* a call arrives after every earlier call has ended
ServeCall == Running = {} /\ Arrive

\* a call arrives while earlier calls are running
AcceptCall == Arrive

\* const internship = await this.prisma.internship.findUnique(...), the
\* NotFoundException and, in updateInternship, the validation of the dates
FindInternship ==
    /\ \E c \in Running :
           LET call == calls[c]
           IN /\ call.pc = "find"
              /\ calls' =
                   [calls EXCEPT ![c] =
                      IF call.id \notin DOMAIN internships
                      THEN Ended(call, 404)
                      ELSE IF /\ call.op = "updateInternship"
                              /\ call.dto.startDate # NoDate
                              /\ call.dto.endDate # NoDate
                              /\ InvalidRange(DateParse(call.dto.startDate),
                                              DateParse(call.dto.endDate))
                      THEN Ended(call, 400)
                      ELSE [call EXCEPT
                              !.pc = IF call.op = "updateInternship"
                                     THEN "update" ELSE "delete",
                              !.found = <<internships[call.id]>>]]
    /\ UNCHANGED <<users, internships, remarks, nextUserId, nextInternshipId,
                   nextRemarkId, response, clock>>

\* await this.prisma.internship.update(...): the row as it is stored now is
\* patched; when the row is gone Prisma rejects with P2025, which no handler
\* catches.  replaced is the status the write has overwritten.
UpdateFound ==
    /\ \E c \in Running :
           LET call == calls[c]
           IN /\ call.pc = "update"
              /\ IF call.id \notin DOMAIN internships
                 THEN /\ calls' = [calls EXCEPT ![c] = Ended(call, 500)]
                      /\ internships' = internships
                 ELSE /\ internships' =
                           [internships EXCEPT
                              ![call.id] = UpdatedRow(@, call.dto)]
                      /\ calls' =
                           [calls EXCEPT ![c] =
                              IF StatusChangedToCompleted(call.found[1], call.dto)
                              THEN [call EXCEPT
                                      !.pc = "notify",
                                      !.replaced = internships[call.id].status]
                              ELSE [Ended(call, 200) EXCEPT
                                      !.replaced = internships[call.id].status]]
    /\ UNCHANGED <<users, remarks, nextUserId, nextInternshipId, nextRemarkId,
                   response, clock>>

\* the try block after the update: getCertificateData reads the row again and
\* throws when it is gone, which the catch block swallows; otherwise the
\* completion mail is attempted
NotifyCompletion ==
    /\ \E c \in Running, sendOk \in BOOLEAN :
           LET call == calls[c]
           IN /\ call.pc = "notify"
              /\ calls' =
                   [calls EXCEPT ![c] =
                      IF getCertificateData(call.id).code # 200
                      THEN Ended(call, 200)
                      ELSE [Ended(call, 200) EXCEPT
                              !.mails =
                                 <<sendInternshipCompletionEmail(
                                       users[call.found[1].userId].email,
                                       generateCertificateHTML(
                                           getCertificateData(call.id).body),
                                       sendOk)>>]]
    /\ UNCHANGED <<users, internships, remarks, nextUserId, nextInternshipId,
                   nextRemarkId, response, clock>>

\* await this.prisma.internship.delete(...): when the row is gone Prisma
\* rejects with P2025, which no handler catches
DeleteFound ==
    /\ \E c \in Running :
           LET call == calls[c]
               db == CascadeInternships({call.id})
           IN /\ call.pc = "delete"
              /\ IF call.id \notin DOMAIN internships
                 THEN /\ calls' = [calls EXCEPT ![c] = Ended(call, 500)]
                      /\ UNCHANGED <<internships, remarks>>
                 ELSE /\ calls' = [calls EXCEPT ![c] = Ended(call, 200)]
                      /\ internships' = db.internships
                      /\ remarks' = db.remarks
    /\ UNCHANGED <<users, nextUserId, nextInternshipId, nextRemarkId,
                   response, clock>>

\* the response is handed to the client
Respond ==
    /\ ~ Idle
    /\ response' = NoResponse
    /\ UNCHANGED <<users, internships, remarks, nextUserId, nextInternshipId,
                   nextRemarkId, clock, calls>>

\* time passes between two requests
Tick ==
    /\ Idle
    /\ clock < MaxClock
    /\ clock' = clock + 1
    /\ UNCHANGED <<users, internships, remarks, nextUserId, nextInternshipId,
                   nextRemarkId, response, calls>>

\* prisma/seed.ts has run: the administrator exists, nothing else does
Init ==
    /\ users = (0 :> [email |-> SeedEmail, name |-> "Admin User", role |-> "ADMIN"])
    /\ internships = <<>>
    /\ remarks = <<>>
    /\ nextUserId = 1
    /\ nextInternshipId = 1
    /\ nextRemarkId = 1
    /\ response = NoResponse
    /\ clock = 0
    /\ calls = <<>>

\* users, internships and remarks come and go
Next ==
    \/ CreateUser
    \/ DeleteUser
    \/ AssignInternship
    \/ RescheduleInternship
    \/ DeleteInternship
    \/ CreateRemark
    \/ AdminRespondToRemark
    \/ Respond

Spec == Init /\ [][Next]_vars

\* the internships of the seeded administrator through their statuses
NextLifecycle ==
    \/ CreateInternship
    \/ GetInternshipById
    \/ UpdateInternship
    \/ DeleteInternship
    \/ Respond

SpecLifecycle == Init /\ [][NextLifecycle]_vars

\* the internships of the seeded administrator and the remarks on them
NextRemarks ==
    \/ CreateInternship
    \/ UpdateInternship
    \/ CreateRemark
    \/ Respond

SpecRemarks == Init /\ [][NextRemarks]_vars

\* certificates asked for by owners, other users and administrators
NextCertificate ==
    \/ CreateUser
    \/ CreateInternship
    \/ CheckCertificateEligibility
    \/ DownloadCertificateAs
    \/ Respond

SpecCertificate == Init /\ [][NextCertificate]_vars

\* certificate data is read for internships of named and unnamed owners
NextCertificateData ==
    \/ RegisterUser
    \/ CreateInternship
    \/ UpdateInternship
    \/ GetCertificateData
    \/ Respond

SpecCertificateData == Init /\ [][NextCertificateData]_vars

\* the date calculator is applied to timestamps
NextCalculator ==
    \/ CalculateProgress
    \/ CalculateDuration
    \/ Respond

SpecCalculator == Init /\ [][NextCalculator]_vars

\* certificate pages are built from certificate data
NextTemplate ==
    \/ GenerateCertificateHTML
    \/ Respond

SpecTemplate == Init /\ [][NextTemplate]_vars

\* internships are listed as time passes over their end dates
NextListing ==
    \/ CreateInternship
    \/ GetInternshipsByUserId
    \/ Tick
    \/ Respond

SpecListing == Init /\ [][NextListing]_vars

\* internships are listed and read in detail as time passes over their end
\* dates
NextViews ==
    \/ CreateInternship
    \/ GetInternshipsByUserId
    \/ GetMyInternshipDetails
    \/ Tick
    \/ Respond

SpecViews == Init /\ [][NextViews]_vars

\* dashboards are read while internships accumulate
NextDashboard ==
    \/ EnrolUser
    \/ AssignListed
    \/ GetUserDashboard
    \/ Respond

SpecDashboard == Init /\ [][NextDashboard]_vars

\* updates and deletes of one internship, each served to its end before the
\* next arrives
NextSerial ==
    \/ AssignFirst
    \/ ServeCall
    \/ FindInternship
    \/ UpdateFound
    \/ NotifyCompletion
    \/ DeleteFound
    \/ Respond

SpecSerial == Init /\ [][NextSerial]_vars

\* updates and deletes of one internship whose database accesses interleave
NextInterleaved ==
    \/ AssignFirst
    \/ AcceptCall
    \/ FindInternship
    \/ UpdateFound
    \/ NotifyCompletion
    \/ DeleteFound
    \/ Respond

SpecInterleaved == Init /\ [][NextInterleaved]_vars

\* remarks are written and answered as time passes
NextRespond ==
    \/ AssignInternship
    \/ RescheduleInternship
    \/ DeleteInternship
    \/ CreateRemark
    \/ PatchRemark
    \/ Tick
    \/ Respond

SpecRespond == Init /\ [][NextRespond]_vars

\* the internships of the seeded administrator under requests that vary the
\* dates
NextDates ==
    \/ CreateDatedInternship
    \/ UpdateDatedInternship
    \/ DeleteInternship
    \/ Respond

SpecDates == Init /\ [][NextDates]_vars

(* ------------------------------- claims -------------------------------- *)
\* the update patches that carry both dates
BothDatesDtos ==
    {dto \in UpdateInternshipDtos : dto.startDate # NoDate /\ dto.endDate # NoDate}

\* the request's start is not before its end
StartNotBeforeEnd(dto) == DateParse(dto.startDate) >= DateParse(dto.endDate)

\* outcome o persisted nothing and attempted no notification
NothingDone(o) ==
    /\ o.users = users
    /\ o.internships = internships
    /\ o.remarks = remarks
    /\ o.mails = <<>>

\* C1 as stated: createInternship, and updateInternship with both dates, fail
\* with InvalidRange (400) whenever start >= end, whatever else the request
\* holds; nothing is created or changed and no notification is attempted;
\* after a success the stored record has startDate < endDate.
C1_AlwaysInvalidRange ==
    Idle =>
      /\ \A dto \in CreateInternshipDtos, sendOk \in BOOLEAN :
           LET o == createInternship(dto, sendOk)
           IN /\ StartNotBeforeEnd(dto) => o.code = 400 /\ NothingDone(o)
              /\ o.code = 201 =>
                   o.internships[nextInternshipId].startDate
                       < o.internships[nextInternshipId].endDate
      /\ \A id \in InternshipIds, dto \in BothDatesDtos, sendOk \in BOOLEAN :
           LET o == updateInternship(id, dto, sendOk)
           IN /\ StartNotBeforeEnd(dto) => o.code = 400 /\ NothingDone(o)
              /\ o.code = 200 =>
                   o.internships[id].startDate < o.internships[id].endDate

\* C1 (amended): createInternship, and updateInternship with both dates, fail
\* whenever start >= end: with InvalidRange (400) when the user, respectively
\* the internship, the request names exists, with NotFound (404) when it does
\* not; nothing is created or changed and no notification is attempted; after
\* a success the stored record has startDate < endDate.
C1_InvalidRangeRejected ==
    Idle =>
      /\ \A dto \in CreateInternshipDtos, sendOk \in BOOLEAN :
           LET o == createInternship(dto, sendOk)
           IN /\ StartNotBeforeEnd(dto) =>
                   /\ o.code = IF dto.userId \in DOMAIN users THEN 400 ELSE 404
                   /\ NothingDone(o)
              /\ o.code = 201 =>
                   o.internships[nextInternshipId].startDate
                       < o.internships[nextInternshipId].endDate
      /\ \A id \in InternshipIds, dto \in BothDatesDtos, sendOk \in BOOLEAN :
           LET o == updateInternship(id, dto, sendOk)
           IN /\ StartNotBeforeEnd(dto) =>
                   /\ o.code = IF id \in DOMAIN internships THEN 400 ELSE 404
                   /\ NothingDone(o)
              /\ o.code = 200 =>
                   o.internships[id].startDate < o.internships[id].endDate

\* an update of a stored internship whose patch carries start >= end was
\* refused with 400
C1_Witness ==
    /\ response.op = "updateInternship"
    /\ response.code = 400
    /\ response.request.id \in DOMAIN internships
    /\ StartNotBeforeEnd(response.request.dto)
    /\ response.mails = <<>>

\* the completion notifications outcome o attempted
CompletionAttempts(o) ==
    Cardinality({k \in 1..Len(o.mails) : o.mails[k].kind = "completion"})

\* C2: a successful updateInternship attempts exactly one completion
\* notification when the patch sets status COMPLETED and the stored status was
\* not COMPLETED, and none otherwise (stored status already COMPLETED, status
\* omitted, or status moved away from COMPLETED).
C2_CompletionNotifiedOnce ==
    Idle =>
      \A id \in InternshipIds, dto \in UpdateInternshipDtos, sendOk \in BOOLEAN :
          LET o == updateInternship(id, dto, sendOk)
          IN o.code = 200 =>
               CompletionAttempts(o) =
                   IF dto.status = "COMPLETED" /\ internships[id].status # "COMPLETED"
                   THEN 1 ELSE 0

\* a patch with status COMPLETED succeeded on an internship that was already
\* COMPLETED, without a notification
C2_Witness ==
    /\ response.op = "updateInternship"
    /\ response.code = 200
    /\ response.request.dto.status = "COMPLETED"
    /\ response.mails = <<>>

\* C3: createInternship with a userId that matches no stored user fails with
\* NotFound (404), leaves the stored internships unchanged and attempts no
\* notification, whatever the other fields are, an invalid date range
\* included.
C3_UnknownUserNotFound ==
    Idle =>
      \A dto \in CreateInternshipDtos, sendOk \in BOOLEAN :
          LET o == createInternship(dto, sendOk)
          IN dto.userId \notin DOMAIN users =>
               /\ o.code = 404
               /\ o.body = [message |-> "User not found"]
               /\ NothingDone(o)

\* a request for an unknown user with start >= end was answered 404
C3_Witness ==
    /\ response.op = "createInternship"
    /\ response.code = 404
    /\ response.request.dto.userId \notin DOMAIN users
    /\ StartNotBeforeEnd(response.request.dto)
    /\ response.mails = <<>>

\* C4: createRemark by user A for an internshipId that does not exist, or
\* whose internship another user owns, fails with one and the same NotFound
\* error, persists no remark and attempts no admin notification.
C4_ForeignRemarkNotFound ==
    Idle =>
      \A A \in UserIds, dto \in CreateRemarkDtos, sendOk \in BOOLEAN :
          LET o == createRemark(A, dto, sendOk)
          IN (\/ dto.internshipId \notin DOMAIN internships
              \/ internships[dto.internshipId].userId # A) =>
               /\ o.code = 404
               /\ o.body = [message |-> "Internship not found or access denied"]
               /\ NothingDone(o)

\* a stored user asked for a remark on a stored internship of another user
\* and was answered 404
C4_Witness ==
    /\ response.op = "createRemark"
    /\ response.code = 404
    /\ response.request.user.id \in DOMAIN users
    /\ response.request.dto.internshipId \in DOMAIN internships
    /\ internships[response.request.dto.internshipId].userId
           # response.request.user.id
    /\ remarks = <<>>
    /\ response.mails = <<>>

\* C5: canUserDownloadCertificate never throws; it answers canDownload = true
\* exactly when the internship exists, is owned by userId and is COMPLETED,
\* and canDownload = false with a reason in every other case.
C5_EligibilityExact ==
    Idle =>
      \A userId \in UserIds, internshipId \in InternshipIds :
          LET o == canUserDownloadCertificate(userId, internshipId)
              eligible == /\ internshipId \in DOMAIN internships
                          /\ internships[internshipId].userId = userId
                          /\ internships[internshipId].status = "COMPLETED"
          IN /\ o.code = 200
             /\ o.body.canDownload = eligible
             /\ ~ eligible => o.body.reason # NONE
             /\ NothingDone(o)

\* a user asked about a COMPLETED internship of another user and was answered
\* canDownload = false
C5_Witness ==
    /\ response.op = "checkCertificateEligibility"
    /\ response.code = 200
    /\ response.body.canDownload = FALSE
    /\ response.request.id \in DOMAIN internships
    /\ internships[response.request.id].status = "COMPLETED"
    /\ internships[response.request.id].userId # response.request.user.id

\* outcomes a and b answer and persist the same, and attempted the same
\* notifications
SameButForSend(a, b) ==
    /\ a.code = b.code
    /\ a.body = b.body
    /\ a.users = b.users
    /\ a.internships = b.internships
    /\ a.remarks = b.remarks
    /\ Len(a.mails) = Len(b.mails)
    /\ \A k \in 1..Len(a.mails) :
           a.mails[k].kind = b.mails[k].kind /\ a.mails[k].to = b.mails[k].to

\* C6: createInternship, updateInternship, createRemark and
\* adminRespondToRemark answer and persist the same whether the notification
\* send succeeds or fails: a failure is not propagated and rolls nothing back.
C6_SendFailureSwallowed ==
    Idle =>
      /\ \A dto \in CreateInternshipDtos :
             SameButForSend(createInternship(dto, TRUE), createInternship(dto, FALSE))
      /\ \A id \in InternshipIds, dto \in UpdateInternshipDtos :
             SameButForSend(updateInternship(id, dto, TRUE),
                            updateInternship(id, dto, FALSE))
      /\ \A userId \in UserIds, dto \in CreateRemarkDtos :
             SameButForSend(createRemark(userId, dto, TRUE),
                            createRemark(userId, dto, FALSE))
      /\ \A remarkId \in RemarkIds, dto \in AdminResponseRemarkDtos :
             SameButForSend(adminRespondToRemark(remarkId, dto, TRUE),
                            adminRespondToRemark(remarkId, dto, FALSE))

\* an update that completed an internship succeeded although its completion
\* notification failed
C6_Witness ==
    /\ response.op = "updateInternship"
    /\ response.code = 200
    /\ Len(response.mails) = 1
    /\ response.mails[1].kind = "completion"
    /\ ~ response.mails[1].ok
    /\ internships[response.request.id].status = "COMPLETED"

\* C7: in every state reachable by createInternship, updateInternship and
\* deleteInternship, every stored internship has startDate < endDate, also
\* after updates whose patch carries one of the two dates.
C7_DatesOrdered ==
    \A i \in DOMAIN internships :
        internships[i].startDate < internships[i].endDate

\* C8: a successful updateInternship(id, patch) leaves every field of
\* internship id that the patch omits as it was, among title, role,
\* startDate, endDate, description and status; the internship's userId, every
\* other internship and every remark stay unchanged.
C8_OnlyPatchedFieldsChange ==
    Idle =>
      \A id \in InternshipIds, dto \in UpdateInternshipDtos, sendOk \in BOOLEAN :
          LET o == updateInternship(id, dto, sendOk)
              old == internships[id]
              new == o.internships[id]
          IN o.code = 200 =>
               /\ dto.title = NONE => new.title = old.title
               /\ dto.role = NONE => new.role = old.role
               /\ dto.startDate = NoDate => new.startDate = old.startDate
               /\ dto.endDate = NoDate => new.endDate = old.endDate
               /\ dto.description = NONE => new.description = old.description
               /\ dto.status = NONE => new.status = old.status
               /\ new.userId = old.userId
               /\ DOMAIN o.internships = DOMAIN internships
               /\ \A j \in DOMAIN internships \ {id} :
                      o.internships[j] = internships[j]
               /\ o.remarks = remarks
               /\ o.users = users

\* a patch of the status alone succeeded while another internship and a
\* remark were stored
C8_Witness ==
    /\ response.op = "updateInternship"
    /\ response.code = 200
    /\ response.request.dto.status # NONE
    /\ response.request.dto.startDate = NoDate
    /\ response.request.dto.endDate = NoDate
    /\ DOMAIN internships \ {response.request.id} # {}
    /\ remarks # <<>>

\* every remark references a stored internship and a stored user, every
\* internship a stored user
ReferentialIntegrity ==
    /\ \A r \in DOMAIN remarks :
           /\ remarks[r].internshipId \in DOMAIN internships
           /\ remarks[r].userId \in DOMAIN users
    /\ \A i \in DOMAIN internships : internships[i].userId \in DOMAIN users

\* C9: referential integrity holds in every reachable state; deleteInternship
\* removes the internship and all of its remarks, deleteUser removes the user
\* and all of their internships and remarks.
C9_ReferentialIntegrity ==
    /\ ReferentialIntegrity
    /\ Idle =>
         /\ \A id \in DOMAIN internships :
                LET o == deleteInternship(id)
                IN /\ o.code = 200
                   /\ id \notin DOMAIN o.internships
                   /\ \A r \in DOMAIN o.remarks : o.remarks[r].internshipId # id
         /\ \A id \in DOMAIN users :
                LET o == deleteUser(id)
                IN /\ o.code = 200
                   /\ id \notin DOMAIN o.users
                   /\ \A i \in DOMAIN o.internships : o.internships[i].userId # id
                   /\ \A r \in DOMAIN o.remarks : o.remarks[r].userId # id

\* the one internship there ever was has just been deleted, and its one
\* remark went with it
C9_Witness ==
    /\ response.op = "deleteInternship"
    /\ response.code = 200
    /\ nextInternshipId = 2
    /\ nextRemarkId = 2
    /\ internships = <<>>
    /\ remarks = <<>>

\* C10: a certificate download answers with certificate bytes only when the
\* requester owns the internship or is ADMIN, and the internship is
\* COMPLETED; a requester who is neither gets 403 whatever the status; an
\* owner or admin gets 400 for an internship that is not COMPLETED; in both
\* cases no rasterizer is launched.
C10_CertificateGuarded ==
    Idle =>
      \A format \in Formats, req \in Requesters, id \in InternshipIds :
          \A failAt \in RasterFailures(format) :
              LET o == downloadCertificateAs(format, req, id, failAt)
                  stored == id \in DOMAIN internships
                  allowed == internships[id].userId = req.id \/ req.role = "ADMIN"
              IN /\ o.code = 200 =>
                       stored /\ allowed /\ internships[id].status = "COMPLETED"
                 /\ stored /\ ~ allowed => o.code = 403 /\ o.browser = <<>>
                 /\ stored /\ allowed /\ internships[id].status # "COMPLETED" =>
                       o.code = 400 /\ o.browser = <<>>

\* a user who is neither owner nor admin asked for the certificate of a
\* COMPLETED internship and was answered 403 with no browser launched
C10_Witness ==
    /\ response.op = "downloadCertificateAs"
    /\ response.code = 403
    /\ response.request.user.role = "USER"
    /\ internships[response.request.id].userId # response.request.user.id
    /\ internships[response.request.id].status = "COMPLETED"
    /\ response.browser = <<>>

\* C11: adminRespondToRemark on a stored remark sets that remark's
\* adminResponse, status and updatedAt to the supplied response, the supplied
\* status and the current time, and leaves its message, requestType, userId
\* and internshipId and every other record unchanged; the targets accepted
\* are REVIEWED and RESOLVED; a request with target PENDING is rejected and
\* changes nothing.
C11_RespondSetsThreeFields ==
    Idle =>
      \A remarkId \in RemarkIds, body \in AdminResponseBodies, sendOk \in BOOLEAN :
          LET o == patchRemark(remarkId, body, sendOk)
          IN /\ o.code = 200 => body.status \in {"REVIEWED", "RESOLVED"}
             /\ body.status = "PENDING" =>
                    /\ o.code = 400
                    /\ NothingDone(o)
             /\ body.status # "PENDING" /\ remarkId \in DOMAIN remarks =>
                    /\ o.code = 200
                    /\ DOMAIN o.remarks = DOMAIN remarks
                    /\ o.remarks[remarkId].adminResponse = body.adminResponse
                    /\ o.remarks[remarkId].status = body.status
                    /\ o.remarks[remarkId].updatedAt = Now
                    /\ o.remarks[remarkId].message = remarks[remarkId].message
                    /\ o.remarks[remarkId].requestType = remarks[remarkId].requestType
                    /\ o.remarks[remarkId].userId = remarks[remarkId].userId
                    /\ o.remarks[remarkId].internshipId = remarks[remarkId].internshipId
                    /\ o.remarks[remarkId].createdAt = remarks[remarkId].createdAt
                    /\ \A r \in DOMAIN remarks \ {remarkId} : o.remarks[r] = remarks[r]
                    /\ o.internships = internships
                    /\ o.users = users

\* a remark written at one time was answered RESOLVED at a later time
C11_Witness ==
    /\ response.op = "patchRemark"
    /\ response.code = 200
    /\ response.request.body.status = "RESOLVED"
    /\ remarks[response.request.remarkId].status = "RESOLVED"
    /\ remarks[response.request.remarkId].adminResponse
           = response.request.body.adminResponse
    /\ remarks[response.request.remarkId].updatedAt = Now
    /\ remarks[response.request.remarkId].createdAt < Now

\* a step creates remarks as PENDING, changes the status of a remark only by
\* answering a respond request for it, and moves no remark back to PENDING
RemarkStatusStep ==
    /\ \A r \in DOMAIN remarks' \ DOMAIN remarks : remarks'[r].status = "PENDING"
    /\ \A r \in DOMAIN remarks \cap DOMAIN remarks' :
           /\ remarks'[r].status # remarks[r].status =>
                  /\ response'.op = "patchRemark"
                  /\ response'.request.remarkId = r
           /\ remarks[r].status # "PENDING" => remarks'[r].status # "PENDING"

\* every stored remark, whatever its status, can be answered with either
\* target
RespondRepeatable ==
    Idle =>
      \A remarkId \in DOMAIN remarks, dto \in AdminResponseRemarkDtos,
         sendOk \in BOOLEAN :
          LET o == patchRemark(remarkId, dto, sendOk)
          IN o.code = 200 /\ o.remarks[remarkId].status = dto.status

\* C12: every remark is created PENDING; its status changes only through
\* adminRespondToRemark; a remark that has left PENDING is never PENDING
\* again; respond succeeds on a remark of any prior status (REVIEWED to
\* RESOLVED and RESOLVED to REVIEWED included).
C12_RemarkStatusMachine == []RespondRepeatable /\ [][RemarkStatusStep]_vars

\* a respond with target REVIEWED succeeded and the remark is REVIEWED
C12_Witness ==
    /\ response.op = "patchRemark"
    /\ response.code = 200
    /\ response.request.body.status = "REVIEWED"
    /\ remarks[response.request.remarkId].status = "REVIEWED"
    /\ remarks[response.request.remarkId].createdAt < Now

\* the internship of every remark of table rs is in table is and is owned by
\* the remark's author
AuthorsOwn(rs, is) ==
    \A r \in DOMAIN rs :
        /\ rs[r].internshipId \in DOMAIN is
        /\ is[rs[r].internshipId].userId = rs[r].userId

\* the update patches that carry at most one property
NoPatch ==
    [title |-> NONE, role |-> NONE, startDate |-> NoDate, endDate |-> NoDate,
     description |-> NONE, status |-> NONE]

SinglePropertyPatches ==
    {[NoPatch EXCEPT !.title = v] : v \in Opt(Titles)}
        \cup {[NoPatch EXCEPT !.role = v] : v \in Roles}
        \cup {[NoPatch EXCEPT !.startDate = v] : v \in DateStrings}
        \cup {[NoPatch EXCEPT !.endDate = v] : v \in DateStrings}
        \cup {[NoPatch EXCEPT !.description = v] : v \in Descriptions}
        \cup {[NoPatch EXCEPT !.status = v] : v \in InternshipStatus}

\* C13: in every reachable state the internship of every stored remark is
\* owned by the remark's author; neither an update of that internship,
\* whichever property it patches, nor a respond makes author and owner
\* differ.
C13_RemarkAuthorOwnsInternship ==
    /\ AuthorsOwn(remarks, internships)
    /\ Idle =>
         /\ \A r \in DOMAIN remarks, dto \in SinglePropertyPatches :
                LET o == updateInternship(remarks[r].internshipId, dto, TRUE)
                IN o.code = 200 => AuthorsOwn(o.remarks, o.internships)
         /\ \A r \in DOMAIN remarks, dto \in AdminResponseRemarkDtos :
                LET o == adminRespondToRemark(r, dto, TRUE)
                IN o.code = 200 /\ AuthorsOwn(o.remarks, o.internships)

\* a remark of a user other than the administrator has been answered while
\* the administrator owned an internship too
C13_Witness ==
    /\ response.op = "adminRespondToRemark"
    /\ response.code = 200
    /\ remarks[response.request.remarkId].userId # 0
    /\ \E i \in DOMAIN internships : internships[i].userId = 0


(* ------------------------------ claim C14 ------------------------------ *)
\* the browser calls of a rasterizer run that follow a resolved launch
Closes(trace) == {k \in 1..Len(trace) : trace[k] = "close"}

\* C14: whenever puppeteer.launch resolved, generateCertificatePDF and
\* generateCertificatePNG close the browser exactly once, as their last
\* browser call, whether the run returns the buffer or one of newPage,
\* setViewport, setContent, the font wait, pdf or screenshot rejects; when
\* launch itself rejects there is no browser and nothing is closed.  The
\* download response in flight carries such a trace.
C14_BrowserAlwaysClosed ==
    /\ \A format \in Formats :
         \A failAt \in RasterFailures(format) :
            LET run == generateCertificate(format, failAt)
                trace == run.browser
            IN /\ trace[1] = "launch"
               /\ failAt = 1 => Closes(trace) = {}
               /\ failAt # 1 => Closes(trace) = {Len(trace)}
               /\ run.ok <=> failAt = 0
    /\ response # NoResponse /\ response.browser # <<>> =>
         \/ response.browser = <<"launch">> /\ response.code = 500
         \/ Closes(response.browser) = {Len(response.browser)}

\* a download whose page.setContent rejected: the response is the 500 of
\* the catch block and the browser launched for it was closed
C14_Witness ==
    /\ response # NoResponse
    /\ response.op = "downloadCertificateAs"
    /\ response.code = 500
    /\ \E k \in 1..Len(response.browser) :
          /\ response.browser[k] = "setContent"
          /\ k + 1 = Len(response.browser)
          /\ response.browser[k + 1] = "close"


(* ------------------------------ claim C15 ------------------------------ *)
\* C15: every completion notification attempted by an update that moved an
\* internship into COMPLETED carries the generated certificate as an
\* attachment of the outgoing message.
C15_CompletionCarriesCertificate ==
    response # NoResponse =>
      \A k \in 1..Len(response.mails) :
         response.mails[k].kind = "completion" =>
            response.mails[k].attachments # <<>>


(* ------------------------------ claim C16 ------------------------------ *)
\* what getCertificateData answers for id when the fallback to the email
\* is taken for the owner names in absent
CertificateDataContract(id, absent) ==
    LET o == getCertificateData(id)
    IN /\ o.code = 404 <=> id \notin DOMAIN internships
       /\ id \in DOMAIN internships =>
            LET owner == users[internships[id].userId]
            IN /\ o.code = 200
               /\ o.body.userName = IF owner.name \in absent
                                    THEN owner.email ELSE owner.name
       /\ NothingDone(o)

\* C16 as stated: getCertificateData fails with NotFound exactly when no
\* internship has the id; otherwise it succeeds, whatever the status, with
\* userName the owner's name, or the owner's email when no name is stored,
\* and changes no stored record.
C16_NameOrEmailWhenAbsent ==
    Idle => \A id \in InternshipIds : CertificateDataContract(id, {NULL})

\* C16 amended: as above, with the owner's email as userName also when the
\* stored name is the empty string.
C16_NameOrEmailWhenFalsy ==
    Idle => \A id \in InternshipIds : CertificateDataContract(id, Falsy)

\* certificate data was read by a requester who is not the owner and not an
\* administrator, for a CANCELLED internship whose owner has an empty name:
\* the answer is 200 and userName is the owner's email
C16_Witness ==
    /\ response.op = "getCertificateData"
    /\ response.code = 200
    /\ response.request.id \in DOMAIN internships
    /\ LET internship == internships[response.request.id]
       IN /\ internship.status = "CANCELLED"
          /\ internship.userId # response.request.user.id
          /\ response.request.user.role = "USER"
          /\ users[internship.userId].name = ""
          /\ response.body.data.userName = users[internship.userId].email


(* ------------------------------ claim C17 ------------------------------ *)
\* what the answer in flight of calculateProgress(start, end, now) with
\* start < end has to be: an integer in 0..100, 0 up to start, 100 from end
\* on, InBetween(progress, elapsed, total) between them, and not more than
\* the progress one millisecond later
ProgressContract(InBetween(_, _, _)) ==
    response.op = "calculateProgress" =>
      LET startDate == response.request.startDate
          endDate == response.request.endDate
          currentDate == response.request.currentDate
          progress == response.body
      IN /\ progress \in 0..100
         /\ currentDate <= startDate => progress = 0
         /\ currentDate >= endDate => progress = 100
         /\ startDate < currentDate /\ currentDate < endDate =>
              InBetween(progress, currentDate - startDate, endDate - startDate)
         /\ progress <= calculateProgress(startDate, endDate, currentDate + 1)

\* round(100 * elapsed / total), a half rounding up
RoundHalfUp(progress, elapsed, total) ==
    progress = (200 * elapsed + total) \div (2 * total)

\* progress is an integer nearest to 100 * elapsed / total
Nearest(progress, elapsed, total) ==
    2 * Abs(progress * total - 100 * elapsed) <= total

\* C17 as stated: for integer timestamps with start < end, calculateProgress
\* is an integer in [0,100], 0 when now <= start, 100 when now >= end, equal
\* to round(100*(now-start)/(end-start)) in between, and non-decreasing in
\* now.
C17_ProgressIsRounded == ProgressContract(RoundHalfUp)

\* C17 amended: as above, but in between the progress is an integer nearest
\* to 100*(now-start)/(end-start); where that value lies halfway between two
\* integers the progress can be the lower one.
C17_ProgressIsNearest == ProgressContract(Nearest)

\* the progress 23 ms into a span of 40 ms was computed: 57, for 57.5 percent
C17_Witness ==
    /\ response.op = "calculateProgress"
    /\ response.request.endDate - response.request.startDate = 40
    /\ response.request.currentDate - response.request.startDate = 23
    /\ response.body = 57


(* ------------------------------ claim C18 ------------------------------ *)
\* time a is not after time b
NotAfter(a, b) == a.days < b.days \/ (a.days = b.days /\ a.ms <= b.ms)

\* d days cover the span between two dates, d - 1 days do not:
\* d = ceil(|end - start| / 1 day)
CeilDays(startDate, endDate, d) ==
    LET first == IF NotAfter(startDate, endDate) THEN startDate ELSE endDate
        last == IF NotAfter(startDate, endDate) THEN endDate ELSE startDate
    IN /\ NotAfter(last, [first EXCEPT !.days = @ + d])
       /\ d = 0 \/ ~ NotAfter(last, [first EXCEPT !.days = @ + d - 1])

\* C18: with d = ceil(|end - start| / 1 day), calculateDuration(start, end)
\* is "d days" when d < 7, "floor(d/7) weeks" when 7 <= d < 30 and
\* "floor(d/30) months" when d >= 30: 7 and 13 days give "1 weeks", 28 days
\* "4 weeks", 60 days "2 months".
C18_DurationBuckets ==
    response.op = "calculateDuration" =>
      \A d \in 0..(MaxDurationDays + 1) :
         CeilDays(response.request.startDate, response.request.endDate, d) =>
            /\ d < 7 => response.body = ToString(d) \o " days"
            /\ 7 <= d /\ d < 30 => response.body = ToString(d \div 7) \o " weeks"
            /\ d >= 30 => response.body = ToString(d \div 30) \o " months"
            /\ d \in {7, 13} => response.body = "1 weeks"
            /\ d = 28 => response.body = "4 weeks"
            /\ d = 60 => response.body = "2 months"

\* the duration of a span of 12 days and a millisecond, given end first, was
\* computed: 13 days begun, "1 weeks"
C18_Witness ==
    /\ response.op = "calculateDuration"
    /\ response.request.startDate = [days |-> 12, ms |-> 1]
    /\ response.request.endDate = [days |-> 0, ms |-> 0]
    /\ response.body = "1 weeks"


(* ------------------------------ claim C19 ------------------------------ *)
\* the fields computed at read time
DerivedFields == {"daysLeft", "isOverdue", "progress"}

\* whole days, counted up, from now to the end date: the d with
\* (d - 1) days < endDate - now <= d days
DaysUntil(endDate, d) ==
    (d - 1) * DayMs < endDate - Now /\ endDate - Now <= d * DayMs

\* C19: every ACTIVE internship listed by getInternshipsByUserId carries
\* daysLeft = max(0, ceil((endDate - now) / 1 day)) and isOverdue = (that
\* ceiling < 0), so that daysLeft is never negative and an overdue internship
\* has daysLeft 0; an internship that is not ACTIVE is listed without
\* daysLeft, isOverdue and progress.
C19_DaysLeftAndOverdue ==
    Idle =>
      \A userId \in UserIds :
         LET list == getInternshipsByUserId(userId).body
         IN \A k \in DOMAIN list :
               LET entry == list[k]
                   internship == internships[entry.id]
               IN IF internship.status = "ACTIVE"
                  THEN /\ DerivedFields \subseteq DOMAIN entry
                       /\ \A d \in (0 - 2 * MaxClock)..(MaxDay + 1) :
                             DaysUntil(internship.endDate, d) =>
                                /\ entry.daysLeft = IF d > 0 THEN d ELSE 0
                                /\ entry.isOverdue = (d < 0)
                       /\ entry.daysLeft >= 0
                       /\ entry.isOverdue => entry.daysLeft = 0
                  ELSE DerivedFields \cap DOMAIN entry = {}

\* a list was returned that holds an ACTIVE internship whose end date is
\* past by less than a day, with daysLeft 0 and not overdue, and an
\* internship that is not ACTIVE, without the derived fields
C19_Witness ==
    /\ response.op = "getInternshipsByUserId"
    /\ \E k \in DOMAIN response.body :
          /\ internships[response.body[k].id].status = "ACTIVE"
          /\ internships[response.body[k].id].endDate < Now
          /\ response.body[k].daysLeft = 0
          /\ ~ response.body[k].isOverdue
    /\ \E k \in DOMAIN response.body :
          /\ response.body[k].status # "ACTIVE"
          /\ DerivedFields \cap DOMAIN response.body[k] = {}

\* as above, with the ACTIVE internship past its end date by more than a
\* day: it is overdue
C19_OverdueListed ==
    /\ response.op = "getInternshipsByUserId"
    /\ \E k \in DOMAIN response.body :
          /\ internships[response.body[k].id].status = "ACTIVE"
          /\ response.body[k].isOverdue
          /\ response.body[k].daysLeft = 0


(* ------------------------------ claim C20 ------------------------------ *)
\* the stored internships of a user, and those in one status
OwnedBy(userId) == {i \in DOMAIN internships : internships[i].userId = userId}
OwnedIn(userId, status) ==
    {i \in OwnedBy(userId) : internships[i].status = status}

\* C20: getUserDashboard(userId) reports total = active + completed +
\* cancelled, each count being the number of the user's stored internships
\* in that status, and recentActivity is the min(5, total) most recently
\* created internships of the user, the newest first; no internship of
\* another user is counted or listed.
C20_DashboardCounts ==
    Idle =>
      \A userId \in UserIds :
         LET dashboard == getUserDashboard(userId).body
             stats == dashboard.stats
             recent == dashboard.recentActivity
             listed == {recent[k].id : k \in DOMAIN recent}
         IN /\ stats.total = stats.active + stats.completed + stats.cancelled
            /\ stats.total = Cardinality(OwnedBy(userId))
            /\ stats.active = Cardinality(OwnedIn(userId, "ACTIVE"))
            /\ stats.completed = Cardinality(OwnedIn(userId, "COMPLETED"))
            /\ stats.cancelled = Cardinality(OwnedIn(userId, "CANCELLED"))
            /\ Len(recent) = IF stats.total < 5 THEN stats.total ELSE 5
            /\ listed \subseteq OwnedBy(userId)
            /\ \A j, k \in DOMAIN recent : j < k => recent[j].id > recent[k].id
            /\ \A i \in OwnedBy(userId) \ listed : \A l \in listed : i < l
            /\ \A k \in DOMAIN dashboard.activeInternships :
                  dashboard.activeInternships[k].id \in OwnedIn(userId, "ACTIVE")
            /\ \A k \in DOMAIN dashboard.completedInternships :
                  dashboard.completedInternships[k].id
                      \in OwnedIn(userId, "COMPLETED")

\* a dashboard was read for a user with six internships: the five created
\* last are the recent activity, the one created first is left out
C20_Witness ==
    /\ response.op = "getUserDashboard"
    /\ response.body.stats.total = 6
    /\ Len(response.body.recentActivity) = 5
    /\ \A k \in 1..5 : response.body.recentActivity[k].id = 7 - k

\* a dashboard was read for a user while another user had internships too
C20_OthersStored ==
    /\ response.op = "getUserDashboard"
    /\ response.body.stats.total > 0
    /\ \E i \in DOMAIN internships :
          internships[i].userId # response.request.userId


(* ------------------------------ claim C21 ------------------------------ *)
\* the calls that attempted a completion notification for internship id
CompletionCalls(id) ==
    {c \in DOMAIN calls : calls[c].id = id /\ CompletionAttempts(calls[c]) > 0}

\* C21: over any sequence of updates of one internship, each served before
\* the next arrives, at most one completion notification is attempted for the
\* internship: once its status has been COMPLETED, moving it to ACTIVE or
\* CANCELLED and back to COMPLETED attempts no further notification.
C21_NotifiedOnFirstCompletionOnly ==
    \A id \in InternshipIds : Cardinality(CompletionCalls(id)) <= 1


(* ------------------------------ claim C22 ------------------------------ *)
\* the positions at which part occurs in text
Occurrences(text, part) ==
    {k \in 1..(Len(text) - Len(part) + 1) :
        SubSeq(text, k, k + Len(part) - 1) = part}

\* the certificate page of data with its name, title and role left empty:
\* the markup of the template itself
TemplateMarkup(data) ==
    generateCertificateHTML([data EXCEPT !.userName = "",
                                         !.internshipTitle = "", !.role = ""])

\* C22: generateCertificateHTML escapes the dynamic fields: the rendered
\* document holds no '<' and no '>' besides those of the template itself,
\* whatever userName, internshipTitle and role hold, and a userName of
\* "<script>alert(1)</script>" produces no script element.
C22_FieldsEscaped ==
    response.op = "generateCertificateHTML" =>
      /\ \A meta \in {"<", ">"} :
            Cardinality(Occurrences(response.body, meta))
                = Cardinality(Occurrences(TemplateMarkup(response.request.data),
                                          meta))
      /\ Occurrences(response.body, "<script>") = {}


(* ------------------------------ claim C23 ------------------------------ *)
\* outcome o is the NotFound error with the message given and nothing else
NotFoundOnly(o, message) ==
    /\ o.code = 404
    /\ o.body = [message |-> message]
    /\ NothingDone(o)

\* C23: getInternshipById, updateInternship and deleteInternship called with
\* the id of no stored internship, and adminRespondToRemark called with the
\* id of no stored remark, fail with NotFound, leave every stored user,
\* internship and remark unchanged and attempt no notification; the updates
\* tried patch one property, the status with or without both dates, or dates
\* out of order.
C23_UnknownIdNotFound ==
    Idle =>
      /\ \A id \in InternshipIds \ DOMAIN internships :
            /\ NotFoundOnly(getInternshipById(id), "Internship not found")
            /\ NotFoundOnly(deleteInternship(id), "Internship not found")
            /\ \A dto \in SinglePropertyPatches \cup UpdateInternshipRequests,
                  sendOk \in BOOLEAN :
                  NotFoundOnly(updateInternship(id, dto, sendOk),
                               "Internship not found")
      /\ \A remarkId \in RemarkIds \ DOMAIN remarks :
            \A dto \in AdminResponseRemarkDtos, sendOk \in BOOLEAN :
               NotFoundOnly(adminRespondToRemark(remarkId, dto, sendOk),
                            "Remark not found")

\* a respond to a remark that its internship's deletion has removed was
\* answered 404 while another internship was stored
C23_Witness ==
    /\ response.op = "adminRespondToRemark"
    /\ response.code = 404
    /\ response.request.remarkId < nextRemarkId
    /\ response.request.remarkId \notin DOMAIN remarks
    /\ internships # <<>>
    /\ response.mails = <<>>


(* ------------------------------ claim C24 ------------------------------ *)
\* C24: a certificate-png or certificate-pdf download for an id of no stored
\* internship is answered with the NotFound error of the lookup and its
\* message, not with the 500 "Failed to generate certificate" that stands
\* for rasterizer failures.
C24_MissingInternshipNotFound ==
    Idle =>
      \A format \in Formats, req \in Requesters :
         \A id \in InternshipIds \ DOMAIN internships :
            \A failAt \in RasterFailures(format) :
               LET o == downloadCertificateAs(format, req, id, failAt)
               IN /\ o.code = 404
                  /\ o.body # [error |-> "Failed to generate certificate"]


(* ------------------------------ claim C25 ------------------------------ *)
\* the browser calls that capture the page
Captures == {"pdf", "screenshot"}

\* C25: in the rasterizer run of every download the steps occur in the order
\* launch, load content, settle delay, capture: no page.pdf and no
\* page.screenshot is called unless a settle delay came before it and
\* page.setContent before that delay, after the launch.
C25_SettleBeforeCapture ==
    response.op = "downloadCertificateAs" =>
      LET trace == response.browser
      IN \A k \in 1..Len(trace) :
            trace[k] \in Captures =>
               \E i, j \in 1..Len(trace) :
                  /\ 1 < i /\ i < j /\ j < k
                  /\ trace[1] = "launch"
                  /\ trace[i] = "setContent"
                  /\ trace[j] = "settle"


(* ------------------------------ claim C26 ------------------------------ *)
\* the update calls that have ended after their findUnique returned a row
UpdatesOfStored ==
    {c \in DOMAIN calls : /\ calls[c].op = "updateInternship"
                          /\ calls[c].pc = "done"
                          /\ calls[c].found # <<>>}

\* C26: no internship status is terminal: whatever the status of a stored
\* internship, an update that patches the status to ACTIVE, COMPLETED or
\* CANCELLED succeeds and stores that status; no update that has found its
\* internship is rejected, whatever status it found, and while no later call
\* has arrived the internship has the status of the last update.
C26_NoTerminalStatus ==
    /\ Idle =>
         \A id \in DOMAIN internships, dto \in StatusPatches, sendOk \in BOOLEAN :
            LET o == updateInternship(id, dto, sendOk)
            IN o.code = 200 /\ o.internships[id].status = dto.status
    /\ \A c \in UpdatesOfStored :
          /\ calls[c].code = 200
          /\ c = Len(calls) => internships[calls[c].id].status = calls[c].dto.status

\* a CANCELLED internship was moved to COMPLETED and then, by the update that
\* has just ended, from COMPLETED to ACTIVE
C26_Witness ==
    /\ Len(calls) = 2
    /\ UpdatesOfStored = {1, 2}
    /\ calls[1].found[1].status = "CANCELLED"
    /\ calls[1].dto.status = "COMPLETED"
    /\ calls[2].found[1].status = "COMPLETED"
    /\ calls[2].dto.status = "ACTIVE"
    /\ calls[2].code = 200
    /\ internships[calls[2].id].status = "ACTIVE"


(* ------------------------------ claim C27 ------------------------------ *)
\* the calls that have ended
EndedCalls == {c \in DOMAIN calls : calls[c].pc = "done"}

\* C27: updateInternship and deleteInternship behave as one atomic
\* persistence step under interleaving: also when a delete of the same id
\* runs between the existence check and the write of an update, or between
\* the check and the delete of another delete, every call ends in success or
\* NotFound, and an internship whose delete has succeeded is stored no more.
C27_AtomicUnderInterleaving ==
    /\ \A c \in EndedCalls : calls[c].code \in {200, 404}
    /\ \A c \in EndedCalls :
          calls[c].op = "deleteInternship" /\ calls[c].code = 200 =>
             calls[c].id \notin DOMAIN internships


(* ------------------------------ claim C28 ------------------------------ *)
\* the writes that have changed the stored status of internship id from
\* another status to COMPLETED
Completions(id) ==
    {c \in DOMAIN calls : /\ calls[c].id = id
                          /\ calls[c].op = "updateInternship"
                          /\ calls[c].replaced \notin {NULL, "COMPLETED"}
                          /\ calls[c].dto.status = "COMPLETED"}

\* C28: under any interleaving of concurrent updates of one internship the
\* completion notifications attempted are never more than the changes of
\* its stored status from another status to COMPLETED: two concurrent updates
\* that both set COMPLETED on an ACTIVE internship attempt one notification.
C28_AttemptsWithinCompletions ==
    \A id \in InternshipIds :
       Cardinality(CompletionCalls(id)) <= Cardinality(Completions(id))


(* ------------------------------ claim C29 ------------------------------ *)
\* the remarks of table rs have an admin response exactly when they are not
\* PENDING
AnsweredIffNotPending(rs) ==
    \A r \in DOMAIN rs : rs[r].adminResponse # NULL <=> rs[r].status # "PENDING"

\* C29: in every reachable state a stored remark has its adminResponse set
\* if and only if its status is not PENDING: createRemark stores a PENDING
\* remark without adminResponse, and every respond request that is accepted
\* sets adminResponse and a status other than PENDING together.
C29_ResponseIffNotPending ==
    /\ AnsweredIffNotPending(remarks)
    /\ Idle =>
         /\ \A req \in Requesters, dto \in CreateRemarkDtos, sendOk \in BOOLEAN :
               LET o == createRemark(req.id, dto, sendOk)
               IN o.code = 201 =>
                     /\ o.remarks[nextRemarkId].status = "PENDING"
                     /\ o.remarks[nextRemarkId].adminResponse = NULL
         /\ \A remarkId \in RemarkIds, body \in AdminResponseBodies,
               sendOk \in BOOLEAN :
               LET o == patchRemark(remarkId, body, sendOk)
               IN o.code = 200 =>
                     /\ o.remarks[remarkId].status # "PENDING"
                     /\ o.remarks[remarkId].adminResponse = body.adminResponse

\* a remark that was stored PENDING and without a response has been answered:
\* it is REVIEWED and carries the response of the request
C29_Witness ==
    /\ response.op = "patchRemark"
    /\ response.code = 200
    /\ remarks[response.request.remarkId].status = "REVIEWED"
    /\ remarks[response.request.remarkId].adminResponse
           = response.request.body.adminResponse
    /\ remarks[response.request.remarkId].adminResponse # NULL


(* ------------------------------ claim C30 ------------------------------ *)
\* C30: for the same internship at the same time the list view
\* (getInternshipsByUserId) and the detail view (getMyInternshipDetails)
\* report the same isOverdue and the same daysLeft; isOverdue is true exactly
\* when the internship is ACTIVE and its end date is before now, also when
\* the end date lies less than one day in the past.
C30_ViewsAgree ==
    Idle =>
      \A userId \in UserIds :
         LET list == getInternshipsByUserId(userId).body
         IN \A k \in DOMAIN list :
               LET entry == list[k]
                   detail == getMyInternshipDetails(userId, entry.id).body
               IN IF entry.status = "ACTIVE"
                  THEN /\ entry.daysLeft = detail.daysLeft
                       /\ entry.isOverdue = detail.isOverdue
                       /\ entry.isOverdue = (internships[entry.id].endDate < Now)
                  ELSE ~ detail.isOverdue

====
